---- MODULE Spec2Model ----
(***************************************************************************)
(* Model of src/main.rs: the calibration-value extractor (get_coord and    *)
(* the scans it is built from) and the accumulating loop of main.          *)
(*                                                                         *)
(* A Rust String is modelled as a sequence of characters.  A character is  *)
(* a one-letter TLA+ string for an ASCII character, and the name of its    *)
(* code point for the two non-ASCII characters of the alphabet:            *)
(*   "u00BE"  is U+00BE (vulgar fraction three quarters), two bytes in     *)
(*            UTF-8, char::is_numeric() = true;                            *)
(*   "u1F600" is U+1F600 (an emoji), four bytes in UTF-8, not numeric.     *)
(* str::find / str::rfind / String::len work on the UTF-8 bytes of the     *)
(* string, chars().enumerate() on its characters; both views are kept.     *)
(***************************************************************************)
EXTENDS Integers, Sequences, FiniteSets, TLC

\* ---------------------------------------------------------------- bounds
\* Longest line (in characters) drawn for get_coord.
MaxLen == 5
\* Longest file (in runs of equal lines) drawn for main.
MaxLines == 3
\* Length of a long run of equal lines in a file given to main.
BigRun == 200000000

\* ------------------------------------------------------------- alphabet
Letters == {"o", "n", "e", "t", "w"}
Numerals == {"0", "2"}
NonAscii == {"u00BE", "u1F600"}
Alphabet == Letters \cup Numerals \cup NonAscii

\* ------------------------------------------------------ Option and tuples
None == <<>>
Some(x) == <<x>>
IsSome(o) == o # None
Unwrap(o) == o[1]

SetMin(S) == CHOOSE x \in S : \A y \in S : x <= y
SetMax(S) == CHOOSE x \in S : \A y \in S : x >= y

\* --------------------------------------------------- the standard library
\* The ten ASCII digits in order: DigitChars[d + 1] is the character of d.
DigitChars == <<"0", "1", "2", "3", "4", "5", "6", "7", "8", "9">>
AsciiDigitSet == {DigitChars[i] : i \in 1..Len(DigitChars)}

\* char::is_numeric: the Unicode categories Nd, Nl and No.  Within ASCII
\* these are '0'..'9'; U+00BE (category No) is numeric as well.
is_numeric(c) == c \in AsciiDigitSet \cup {"u00BE"}

\* char::is_whitespace, as used by str::trim: the Unicode White_Space
\* characters.  The ASCII ones are written as themselves (U+000B by name),
\* the others by the name of their code point.
AsciiWhitespace == {" ", "\t", "\n", "u000B", "\f", "\r"}
Whitespace2 == {"u0085", "u00A0"}
Whitespace3 ==
  {"u1680", "u2000", "u2001", "u2002", "u2003", "u2004", "u2005", "u2006",
   "u2007", "u2008", "u2009", "u200A", "u2028", "u2029", "u202F", "u205F",
   "u3000"}

is_whitespace(c) == c \in AsciiWhitespace \cup Whitespace2 \cup Whitespace3

\* The UTF-8 encoding of one character.
\* (for the non-ASCII whitespace only the number of bytes is kept: none of
\* its bytes is a byte of an ASCII pattern)
utf8(c) ==
  IF c = "u00BE" THEN <<"xC2", "xBE">>
  ELSE IF c = "u1F600" THEN <<"xF0", "x9F", "x98", "x80">>
  ELSE IF c \in Whitespace2 THEN <<"xC2", "x80..xBF">>
  ELSE IF c \in Whitespace3 THEN <<"xE1..xE3", "x80..xBF", "x80..xBF">>
  ELSE <<c>>

\* The bytes of a string: the concatenation of its characters' encodings.
RECURSIVE as_bytes(_)
as_bytes(s) == IF s = <<>> THEN <<>> ELSE utf8(Head(s)) \o as_bytes(Tail(s))

\* String::len: the length in bytes.
str_len(s) == Len(as_bytes(s))

\* The byte offsets at which pat occurs in s.
MatchOffsets(s, pat) ==
  LET b == as_bytes(s)
      p == as_bytes(pat)
  IN {i \in 0..(Len(b) - Len(p)) : SubSeq(b, i + 1, i + Len(p)) = p}

\* str::find: the byte offset of the first match.
str_find(s, pat) ==
  LET hits == MatchOffsets(s, pat)
  IN IF hits = {} THEN None ELSE Some(SetMin(hits))

\* str::rfind: the byte offset of the last match.
str_rfind(s, pat) ==
  LET hits == MatchOffsets(s, pat)
  IN IF hits = {} THEN None ELSE Some(SetMax(hits))

\* u8::to_string for 1..9.
to_string(n) == <<DigitChars[n + 1]>>

\* The value of an ASCII digit character.
DigitVal(c) == (CHOOSE i \in 1..Len(DigitChars) : DigitChars[i] = c) - 1

\* str::parse::<u32> on a string of at most two characters: Ok(value) when
\* the string is a non-empty run of ASCII digits, Err otherwise (a leading
\* '+', which parse accepts, is never part of coord: coord is built from
\* numeric characters and from to_string of 1..9 only).
RECURSIVE DecimalValue(_, _)
DecimalValue(s, acc) ==
  IF s = <<>> THEN acc ELSE DecimalValue(Tail(s), 10 * acc + DigitVal(Head(s)))

parse_u32(s) ==
  IF s # <<>> /\ \A i \in 1..Len(s) : s[i] \in AsciiDigitSet
  THEN Some(DecimalValue(s, 0))
  ELSE None

\* ------------------------------------------------------------ src/main.rs
DIGITS ==
  << <<"o", "n", "e">>, <<"t", "w", "o">>, <<"t", "h", "r", "e", "e">>,
     <<"f", "o", "u", "r">>, <<"f", "i", "v", "e">>, <<"s", "i", "x">>,
     <<"s", "e", "v", "e", "n">>, <<"e", "i", "g", "h", "t">>,
     <<"n", "i", "n", "e">> >>

\* filter_map over DIGITS of str.find, then min_by_key on the index:
\* the first of the elements with the smallest index.
find_first_alpha_digit(str) ==
  LET at == [k \in 1..Len(DIGITS) |-> str_find(str, DIGITS[k])]
      found == {k \in 1..Len(DIGITS) : IsSome(at[k])}
  IN IF found = {} THEN None
     ELSE LET m == SetMin({Unwrap(at[k]) : k \in found})
              k0 == SetMin({k \in found : Unwrap(at[k]) = m})
          IN Some(<<DIGITS[k0], m>>)

\* The loop of find_last_alpha_digit from word k on; last is last_substring
\* (last_index is its second component).
RECURSIVE last_alpha_loop(_, _, _)
last_alpha_loop(str, k, last) ==
  IF k > Len(DIGITS) THEN last
  ELSE LET r == str_rfind(str, DIGITS[k])
       IN IF IsSome(r) /\ (last = None \/ Unwrap(r) > Unwrap(last)[2])
          THEN last_alpha_loop(str, k + 1, Some(<<DIGITS[k], Unwrap(r)>>))
          ELSE last_alpha_loop(str, k + 1, last)

\* The string s without its first n bytes (n at a character boundary).
RECURSIVE skip_bytes(_, _)
skip_bytes(s, n) ==
  IF n <= 0 \/ s = <<>> THEN s ELSE skip_bytes(Tail(s), n - Len(utf8(Head(s))))

\* A slip: the last word of a single left-to-right stream of tokens, each
\* match consuming its characters, instead of an rfind over the whole str.
RECURSIVE find_last_alpha_digit_tokens(_)
find_last_alpha_digit_tokens(str) ==
  LET head == find_first_alpha_digit(str)
  IN IF head = None THEN None
     ELSE LET used == Unwrap(head)[2] + Len(Unwrap(head)[1])
              rest == find_last_alpha_digit_tokens(skip_bytes(str, used))
          IN IF rest = None THEN head
             ELSE Some(<<Unwrap(rest)[1], used + Unwrap(rest)[2]>>)

find_last_alpha_digit(str) == last_alpha_loop(str, 1, None)

alpha_to_numeric(alpha_digit) ==
  LET pos == {k \in 1..Len(DIGITS) : DIGITS[k] = alpha_digit}
  IN IF pos = {} THEN None ELSE Some(to_string((SetMin(pos) - 1) + 1))

\* iter is the sequence of characters; enumerate() counts from 0.
find_numeric_digit(iter) ==
  LET hits == {i \in 1..Len(iter) : is_numeric(iter[i])}
  IN IF hits = {} THEN None
     ELSE LET i == SetMin(hits) IN Some(<< <<iter[i]>>, i - 1 >>)

\* A slip: the reverse scan stops before the character of index 0.
rev_find_numeric_digit_skip0(iter) ==
  LET hits == {i \in 2..Len(iter) : is_numeric(iter[i])}
  IN IF hits = {} THEN None
     ELSE LET i == SetMax(hits) IN Some(<< <<iter[i]>>, i - 1 >>)

rev_find_numeric_digit(iter) ==
  LET hits == {i \in 1..Len(iter) : is_numeric(iter[i])}
  IN IF hits = {} THEN None
     ELSE LET i == SetMax(hits) IN Some(<< <<iter[i]>>, i - 1 >>)

\* str.chars() of a string is the sequence of its characters.
find_first_numeric_digit(str) == find_numeric_digit(str)

find_last_numeric_digit(str) == rev_find_numeric_digit(str)

\* A slip: the comparison of get_first_digit turned round.
get_first_digit_flipped(line) ==
  LET first_numeric_digit == find_first_numeric_digit(line)
      first_alpha_digit == find_first_alpha_digit(line)
  IN IF IsSome(first_numeric_digit) /\ IsSome(first_alpha_digit)
     THEN IF Unwrap(first_numeric_digit)[2] > Unwrap(first_alpha_digit)[2]
          THEN Some(Unwrap(first_numeric_digit)[1])
          ELSE alpha_to_numeric(Unwrap(first_alpha_digit)[1])
     ELSE IF IsSome(first_numeric_digit)
     THEN Some(Unwrap(first_numeric_digit)[1])
     ELSE IF IsSome(first_alpha_digit)
     THEN alpha_to_numeric(Unwrap(first_alpha_digit)[1])
     ELSE None

get_first_digit(line) ==
  LET first_numeric_digit == find_first_numeric_digit(line)
      first_alpha_digit == find_first_alpha_digit(line)
  IN IF IsSome(first_numeric_digit) /\ IsSome(first_alpha_digit)
     THEN IF Unwrap(first_numeric_digit)[2] < Unwrap(first_alpha_digit)[2]
          THEN Some(Unwrap(first_numeric_digit)[1])
          ELSE alpha_to_numeric(Unwrap(first_alpha_digit)[1])
     ELSE IF IsSome(first_numeric_digit)
     THEN Some(Unwrap(first_numeric_digit)[1])
     ELSE IF IsSome(first_alpha_digit)
     THEN alpha_to_numeric(Unwrap(first_alpha_digit)[1])
     ELSE None

get_last_digit(line) ==
  LET last_numeric_digit == find_last_numeric_digit(line)
      last_alpha_digit == find_last_alpha_digit(line)
  IN IF IsSome(last_numeric_digit) /\ IsSome(last_alpha_digit)
     THEN IF Unwrap(last_numeric_digit)[2] > Unwrap(last_alpha_digit)[2]
          THEN Some(Unwrap(last_numeric_digit)[1])
          ELSE alpha_to_numeric(Unwrap(last_alpha_digit)[1])
     ELSE IF IsSome(last_numeric_digit)
     THEN Some(Unwrap(last_numeric_digit)[1])
     ELSE IF IsSome(last_alpha_digit)
     THEN alpha_to_numeric(Unwrap(last_alpha_digit)[1])
     ELSE None

\* The outcome of get_coord: a returned value, or one of its two panics.
Returned(v) == [tag |-> "returned", val |-> v]
AssertPanic == [tag |-> "assert_failed", val |-> 0]
UnwrapPanic == [tag |-> "unwrap_failed", val |-> 0]

\* coord after the two `coord = coord.add(..)` of get_coord, given what
\* get_first_digit and get_last_digit returned.
coord_add(first_digit, last_digit) ==
  (IF IsSome(first_digit) THEN Unwrap(first_digit) ELSE <<>>)
    \o (IF IsSome(last_digit) THEN Unwrap(last_digit) ELSE <<>>)

\* A slip: an empty coord silently read as 0 instead of failing the assertion.
assert_and_parse_default(coord) ==
  IF coord = <<>> THEN Returned(0)
  ELSE IF str_len(coord) # 2 THEN AssertPanic
  ELSE IF IsSome(parse_u32(coord)) THEN Returned(Unwrap(parse_u32(coord)))
  ELSE UnwrapPanic

\* assert!(coord.len() == 2); coord.parse::<u32>().unwrap()
assert_and_parse(coord) ==
  IF str_len(coord) # 2 THEN AssertPanic
  ELSE IF IsSome(parse_u32(coord)) THEN Returned(Unwrap(parse_u32(coord)))
  ELSE UnwrapPanic

get_coord(line) ==
  assert_and_parse(coord_add(get_first_digit(line), get_last_digit(line)))

\* str::trim: the string without its leading and trailing whitespace.
RECURSIVE trim_start(_)
trim_start(s) ==
  IF s # <<>> /\ is_whitespace(Head(s)) THEN trim_start(Tail(s)) ELSE s

RECURSIVE trim_end(_)
trim_end(s) ==
  IF s # <<>> /\ is_whitespace(s[Len(s)])
  THEN trim_end(SubSeq(s, 1, Len(s) - 1))
  ELSE s

trim(s) == trim_end(trim_start(s))

\* A file, and the Vec<String> read from it, is a sequence of runs: run r
\* stands for r.reps consecutive lines that all read r.text.
\* get_input: content.lines() mapped through trim; the content is given
\* already split by str::lines (at each LF, a CR before the LF dropped), so
\* a raw line holds no LF, and any other whitespace only if the file does.
get_input(content) ==
  [i \in 1..Len(content) |->
     [text |-> trim(content[i].text), reps |-> content[i].reps]]

\* A u32 is kept as two 16-bit halves, value = hi * 2^16 + lo.
Half == 2^16
U32(h, l) == [hi |-> h, lo |-> l]

\* The exact (unbounded) sum of a u32 and reps additions of val (val < 100):
\* the same halves, with hi allowed beyond 16 bits.
exact_add(sum, val, reps) ==
  LET lo_t == sum.lo + val * (reps % Half)
      hi_t == sum.hi + val * (reps \div Half) + (lo_t \div Half)
  IN U32(hi_t, lo_t % Half)

\* Whether `sum += val`, done reps times, overflows the u32.
add_overflows(sum, val, reps) == exact_add(sum, val, reps).hi >= Half

\* The u32 left by `sum += val`, done reps times, with wrapping arithmetic.
wrapping_add(sum, val, reps) ==
  LET e == exact_add(sum, val, reps) IN U32(e.hi % Half, e.lo)

\* ------------------------------------------------------------------ state
VARIABLES
  line,     \* get_coord: its argument
  first,    \* get_coord: what get_first_digit(&line) returned
  last,     \* get_coord: what get_last_digit(&line) returned
  result,   \* get_coord: its outcome, None while the call has not run
  pc,       \* "call" before get_coord runs, "exit" after; "idle" in main
  content,  \* main: the lines of res/data.txt, as runs
  lines,    \* main: the Vec<String> get_input returned, as runs
  idx,      \* main: the number of runs the for loop has consumed
  sum,      \* main: the u32 accumulator
  output,   \* main: None, or Some(N) once "Sum is N" is printed
  mpc,      \* main: "get_input", "loop", "exit", "panicked"; "idle" in get_coord
  panic     \* main: why it panicked: "", "read", "extract", "overflow"

coord_vars == <<line, first, last, result, pc>>
main_vars == <<content, lines, idx, sum, output, mpc, panic>>
vars == <<line, first, last, result, pc,
          content, lines, idx, sum, output, mpc, panic>>

\* Every string of at most n characters of the alphabet.
RECURSIVE Strings(_)
Strings(n) ==
  IF n = 0 THEN {<<>>}
  ELSE LET shorter == Strings(n - 1)
       IN shorter \cup {Append(s, c) : s \in {t \in shorter : Len(t) = n - 1},
                                       c \in Alphabet}

CoordIdle ==
  /\ line = <<>>
  /\ first = None
  /\ last = None
  /\ result = None
  /\ pc = "idle"

MainIdle ==
  /\ content = <<>>
  /\ lines = <<>>
  /\ idx = 0
  /\ sum = U32(0, 0)
  /\ output = None
  /\ mpc = "idle"
  /\ panic = ""

\* ------------------------------------------------------- get_coord, alone
Init ==
  /\ line \in Strings(MaxLen)
  /\ first = None
  /\ last = None
  /\ result = None
  /\ pc = "call"
  /\ MainIdle

\* One call of get_coord(line), to its return or its panic.
GetCoord ==
  /\ pc = "call"
  /\ \E f \in {get_first_digit(line)}, l \in {get_last_digit(line)} :
       /\ first' = f
       /\ last' = l
       /\ result' = Some(assert_and_parse(coord_add(f, l)))
  /\ pc' = "exit"
  /\ UNCHANGED line
  /\ UNCHANGED main_vars

Next == GetCoord

Spec == Init /\ [][Next]_vars

\* ------------------------------------------------------------------- main
\* The raw lines a file is made of.
RawLines ==
  { <<"\r", "2", "2", " ">>, <<"o", "n", "e", "\f">>, <<"u00A0", "0">>,
    <<" ", "\t">> }

RunLens == {1, BigRun}

Runs == [text : RawLines, reps : RunLens]

RECURSIVE Files(_)
Files(n) ==
  IF n = 0 THEN {<<>>}
  ELSE LET shorter == Files(n - 1)
       IN shorter \cup {Append(f, r) : f \in {g \in shorter : Len(g) = n - 1},
                                       r \in Runs}

MainInit ==
  /\ content \in Files(MaxLines)
  /\ lines = <<>>
  /\ idx = 0
  /\ sum = U32(0, 0)
  /\ output = None
  /\ mpc = "get_input"
  /\ panic = ""
  /\ CoordIdle

\* fs::read_to_string fails: expect("Couldn't read input") panics.
ReadPanics ==
  /\ mpc = "get_input"
  /\ mpc' = "panicked"
  /\ panic' = "read"
  /\ UNCHANGED <<content, lines, idx, sum, output>>
  /\ UNCHANGED coord_vars

\* let lines = get_input(path); let mut sum: u32 = 0;
GetInput ==
  /\ mpc = "get_input"
  /\ lines' = get_input(content)
  /\ sum' = U32(0, 0)
  /\ mpc' = "loop"
  /\ UNCHANGED <<content, idx, output, panic>>
  /\ UNCHANGED coord_vars

\* The loop body on the lines of the next run, get_coord returning on each
\* and no addition overflowing.
LoopAdd ==
  /\ mpc = "loop"
  /\ idx < Len(lines)
  /\ \E r \in {get_coord(lines[idx + 1].text)} :
       /\ r.tag = "returned"
       /\ ~add_overflows(sum, r.val, lines[idx + 1].reps)
       /\ sum' = wrapping_add(sum, r.val, lines[idx + 1].reps)
  /\ idx' = idx + 1
  /\ UNCHANGED <<content, lines, output, mpc, panic>>
  /\ UNCHANGED coord_vars

\* A slip: a line on which get_coord fails is skipped and the loop goes on.
LoopExtractSkips ==
  /\ mpc = "loop"
  /\ idx < Len(lines)
  /\ get_coord(lines[idx + 1].text).tag # "returned"
  /\ idx' = idx + 1
  /\ UNCHANGED <<content, lines, sum, output, mpc, panic>>
  /\ UNCHANGED coord_vars

\* The loop body on the first line of the next run, get_coord panicking.
LoopExtractPanics ==
  /\ mpc = "loop"
  /\ idx < Len(lines)
  /\ get_coord(lines[idx + 1].text).tag # "returned"
  /\ mpc' = "panicked"
  /\ panic' = "extract"
  /\ UNCHANGED <<content, lines, idx, sum, output>>
  /\ UNCHANGED coord_vars

\* `sum += ..` overflowing within the next run, in a build with overflow
\* checks (debug): "attempt to add with overflow".
LoopOverflowPanics ==
  /\ mpc = "loop"
  /\ idx < Len(lines)
  /\ \E r \in {get_coord(lines[idx + 1].text)} :
       /\ r.tag = "returned"
       /\ add_overflows(sum, r.val, lines[idx + 1].reps)
  /\ mpc' = "panicked"
  /\ panic' = "overflow"
  /\ UNCHANGED <<content, lines, idx, sum, output>>
  /\ UNCHANGED coord_vars

\* `sum += ..` overflowing within the next run, in a build without overflow
\* checks (release): the sum wraps.
LoopOverflowWraps ==
  /\ mpc = "loop"
  /\ idx < Len(lines)
  /\ \E r \in {get_coord(lines[idx + 1].text)} :
       /\ r.tag = "returned"
       /\ add_overflows(sum, r.val, lines[idx + 1].reps)
       /\ sum' = wrapping_add(sum, r.val, lines[idx + 1].reps)
  /\ idx' = idx + 1
  /\ UNCHANGED <<content, lines, output, mpc, panic>>
  /\ UNCHANGED coord_vars

\* println!("Sum is {}", sum) after the loop.
PrintSum ==
  /\ mpc = "loop"
  /\ idx = Len(lines)
  /\ output' = Some(sum)
  /\ mpc' = "exit"
  /\ UNCHANGED <<content, lines, idx, sum, panic>>
  /\ UNCHANGED coord_vars

MainNext ==
  \/ ReadPanics
  \/ GetInput
  \/ LoopAdd
  \/ LoopExtractPanics
  \/ LoopOverflowPanics
  \/ LoopOverflowWraps
  \/ PrintSum

MainSpec == MainInit /\ [][MainNext]_vars

\* ------------------------------------------------ the claims' vocabulary
\* What a line holds, read off its characters (positions count characters
\* from 1), independently of the scans above.
IsAscii(s) == \A i \in 1..Len(s) : s[i] \notin NonAscii

WordAt(s, i, k) ==
  /\ i + Len(DIGITS[k]) - 1 <= Len(s)
  /\ SubSeq(s, i, i + Len(DIGITS[k]) - 1) = DIGITS[k]

\* <<position, value>> of every digit word occurring in s.
WordOccurrences(s) ==
  {o \in (1..Len(s)) \X (1..Len(DIGITS)) : WordAt(s, o[1], o[2])}

\* <<position, value>> of every ASCII numeral of s.
NumeralOccurrences(s) ==
  {<<i, DigitVal(s[i])>> : i \in {j \in 1..Len(s) : s[j] \in AsciiDigitSet}}

Occurrences(s) == WordOccurrences(s) \cup NumeralOccurrences(s)

Leftmost(O) == CHOOSE o \in O : \A q \in O : o[1] <= q[1]
Rightmost(O) == CHOOSE o \in O : \A q \in O : o[1] >= q[1]

\* The positions of the characters the scans take for numerals.
NumericPositions(s) == {i \in 1..Len(s) : is_numeric(s[i])}

\* The byte offset of the character at position i.
ByteOffset(s, i) == str_len(SubSeq(s, 1, i - 1))

\* Two word occurrences that share characters, the earlier one first.
OverlapPairs(s) ==
  {p \in WordOccurrences(s) \X WordOccurrences(s) :
     p[1][1] < p[2][1] /\ p[2][1] < p[1][1] + Len(DIGITS[p[1][2]])}

\* Of the leftmost numeral and the leftmost word, the digit string of the
\* one that comes earlier in the line; likewise rightmost and later.
EarlierOfBoth(s) ==
  LET n == SetMin(NumericPositions(s))
      w == Leftmost(WordOccurrences(s))
  IN IF n < w[1] THEN <<s[n]>> ELSE to_string(w[2])

LaterOfBoth(s) ==
  LET n == SetMax(NumericPositions(s))
      w == Rightmost(WordOccurrences(s))
  IN IF n > w[1] THEN <<s[n]>> ELSE to_string(w[2])

\* ----------------------------------------------------------------- claims
\* C1: for every ASCII-only line with at least one digit occurrence (an
\* ASCII numeral or a digit word as a raw substring), get_coord returns
\* 10*F + L, F the value of the occurrence that starts first and L the value
\* of the occurrence that starts last.
C1_FirstAndLastOccurrence ==
  (pc = "exit" /\ IsAscii(line) /\ Occurrences(line) # {})
    => result = Some(Returned(10 * Leftmost(Occurrences(line))[2]
                                + Rightmost(Occurrences(line))[2]))

C1_Witness ==
  /\ pc = "exit"
  /\ line = <<"o", "n", "e", "0", "2">>
  /\ result = Some(Returned(12))

\* C2: on a line with no numeral and no digit word (the empty line
\* included) get_coord ends in the assertion failure and returns no value.
C2_NoDigitAsserts ==
  (pc = "exit" /\ Occurrences(line) = {}) => result = Some(AssertPanic)

C2_Witness ==
  /\ pc = "exit"
  /\ line = <<>>
  /\ result = Some(AssertPanic)

\* C3: on every line with at least one ASCII numeral or digit word,
\* whatever else the line holds, get_coord returns a value.
C3_OneDigitSuffices ==
  (pc = "exit" /\ Occurrences(line) # {}) => Unwrap(result).tag = "returned"

\* C6: when two digit words overlap in a line (without numerals), the first
\* digit is the leftmost word and the last digit is the rightmost word, each
\* scan finding its word at that word's own offset; "twone" gives 21.
C6_OverlapIndependentScans ==
  (pc = "exit" /\ NumericPositions(line) = {} /\ OverlapPairs(line) # {})
    => LET f == Leftmost(WordOccurrences(line))
           l == Rightmost(WordOccurrences(line))
       IN /\ find_first_alpha_digit(line)
               = Some(<<DIGITS[f[2]], ByteOffset(line, f[1])>>)
          /\ find_last_alpha_digit(line)
               = Some(<<DIGITS[l[2]], ByteOffset(line, l[1])>>)
          /\ first = Some(to_string(f[2]))
          /\ last = Some(to_string(l[2]))
          /\ result = Some(Returned(10 * f[2] + l[2]))
          /\ (line = <<"t", "w", "o", "n", "e">>
                => result = Some(Returned(21)))

C6_Witness ==
  /\ pc = "exit"
  /\ line = <<"t", "w", "o", "n", "e">>
  /\ first = Some(<<"2">>)
  /\ last = Some(<<"1">>)
  /\ result = Some(Returned(21))

\* C7: on every line with exactly one digit occurrence (one ASCII numeral or
\* one occurrence of one digit word) both scans return that occurrence's
\* value d and get_coord returns 11 * d.
C7_SingleOccurrence ==
  (pc = "exit" /\ Cardinality(Occurrences(line)) = 1)
    => LET d == Leftmost(Occurrences(line))[2]
       IN /\ first = Some(to_string(d))
          /\ last = Some(to_string(d))
          /\ result = Some(Returned(11 * d))

\* C8: on every line with both a numeral and a digit word, get_first_digit
\* returns whichever of the leftmost numeral and the leftmost word comes
\* earlier in the line, and get_last_digit whichever of the rightmost numeral
\* and the rightmost word comes later.
C8_PositionsOrderAsInLine ==
  (pc = "exit" /\ NumericPositions(line) # {} /\ WordOccurrences(line) # {})
    => /\ first = Some(EarlierOfBoth(line))
       /\ last = Some(LaterOfBoth(line))

\* C9: whenever both a numeral and a digit word are found, the two indices
\* compared in get_first_digit differ, and so do those of get_last_digit.
C9_NoIndexTie ==
  (pc = "exit" /\ NumericPositions(line) # {} /\ WordOccurrences(line) # {})
    => /\ Unwrap(find_first_numeric_digit(line))[2]
            # Unwrap(find_first_alpha_digit(line))[2]
       /\ Unwrap(find_last_numeric_digit(line))[2]
            # Unwrap(find_last_alpha_digit(line))[2]

\* C10: get_first_digit returns a digit exactly when get_last_digit does, so
\* coord at the assertion is made of zero or of two digit strings.
C10_BothOrNeither ==
  pc = "exit"
    => /\ IsSome(first) <=> IsSome(last)
       /\ (IF IsSome(first) THEN 1 ELSE 0) + (IF IsSome(last) THEN 1 ELSE 0)
            \in {0, 2}

C10_Witness ==
  /\ pc = "exit"
  /\ line = <<"u1F600", "t", "w", "o">>
  /\ first = Some(<<"2">>)
  /\ last = Some(<<"2">>)

\* ------------------------------------------------------- claims about main
Fails(run) == get_coord(run.text).tag # "returned"

\* The index of the first run whose lines fail extraction, 0 when none does.
FirstBad(ls) ==
  IF \E i \in 1..Len(ls) : Fails(ls[i])
  THEN SetMin({i \in 1..Len(ls) : Fails(ls[i])})
  ELSE 0

\* C4: "Sum is N" is printed only after every line was extracted; a line
\* that fails extraction aborts the run at that line, with no line skipped
\* before it, no line processed after it and nothing printed.
C4_AllOrNothing ==
  /\ output # None
       => /\ mpc = "exit"
          /\ idx = Len(lines)
          /\ FirstBad(lines) = 0
  /\ mpc = "exit" => output = Some(sum)
  /\ mpc = "panicked" => output = None
  /\ \A i \in 1..idx : ~Fails(lines[i])
  /\ FirstBad(lines) # 0
       => /\ output = None
          /\ mpc # "exit"
          /\ idx < FirstBad(lines)
  /\ panic = "extract"
       => /\ mpc = "panicked"
          /\ idx + 1 = FirstBad(lines)

C4_Witness ==
  /\ mpc = "panicked"
  /\ panic = "extract"
  /\ Len(lines) = 3
  /\ idx = 1
  /\ ~Fails(lines[3])
  /\ output = None

\* The exact sum of get_coord over the lines of the runs from i on.
RECURSIVE ArithSum(_, _, _)
ArithSum(ls, i, acc) ==
  IF i > Len(ls) THEN acc
  ELSE ArithSum(ls, i + 1,
                exact_add(acc, get_coord(ls[i].text).val, ls[i].reps))

\* What main prints for the runs ls taken in the order p, when it prints.
RECURSIVE PrintedSum(_, _, _, _)
PrintedSum(ls, p, i, acc) ==
  IF i > Len(ls) THEN acc
  ELSE PrintedSum(ls, p, i + 1,
                  wrapping_add(acc, get_coord(ls[p[i]].text).val,
                               ls[p[i]].reps))

Orders(n) ==
  {p \in [1..n -> 1..n] : \A i, j \in 1..n : p[i] = p[j] => i = j}

\* C5: the number main prints is the arithmetic sum of get_coord over all
\* lines, the same for every order of the lines; the u32 accumulator never
\* makes it differ from that sum.
C5_PrintsArithmeticSum ==
  mpc = "exit"
    => /\ output = Some(ArithSum(lines, 1, U32(0, 0)))
       /\ \A p \in Orders(Len(lines)) :
            PrintedSum(lines, p, 1, U32(0, 0)) = Unwrap(output)

====
